---- MODULE Spec2Model ----
\* A model of src/cmd.go (package gosu): the command splitter, the logical
\* command identity, blocking runs, asynchronous Start with its registry of
\* spawned processes and the wait group, and Inside.
\*
\* Strings are sequences of one-character strings, so that concatenation,
\* suffix tests and tokenization are computed and not assumed.
EXTENDS Integers, Sequences, FiniteSets, TLC

\* ---------------------------------------------------------------- bounds

\* Number of calls (Start, Run, Bash, Inside) the host makes in one run.
MaxCalls == 2
\* Longest command string handed to splitCommand in SplitSpec.
MaxLen == 5
\* Number of blocking runs in RunSpec, and of chunks a child writes.
MaxRuns == 2
MaxWrites == 2

\* ------------------------------------------------------- string helpers

\* The characters command strings are built from in SplitSpec.
Alphabet == {"a", "b", "=", " "}

\* strings.Contains(item, c) for a one-character c.
Contains(item, c) == \E i \in 1..Len(item) : item[i] = c

\* strings.HasSuffix(s, suffix).
HasSuffix(s, suffix) ==
    /\ Len(s) >= Len(suffix)
    /\ SubSeq(s, Len(s) - Len(suffix) + 1, Len(s)) = suffix

\* strings.Join(elems, sep).
RECURSIVE Join(_, _)
Join(elems, sep) ==
    IF Len(elems) = 0 THEN <<>>
    ELSE IF Len(elems) = 1 THEN elems[1]
    ELSE elems[1] \o sep \o Join(Tail(elems), sep)

\* str.ToArgv(command) on strings without quotes or escapes: the words
\* between runs of blanks, in order.
RECURSIVE Tokenize(_, _, _, _)
Tokenize(s, i, word, acc) ==
    IF i > Len(s)
    THEN IF Len(word) > 0 THEN Append(acc, word) ELSE acc
    ELSE IF s[i] = " "
         THEN Tokenize(s, i + 1, <<>>,
                       IF Len(word) > 0 THEN Append(acc, word) ELSE acc)
         ELSE Tokenize(s, i + 1, Append(word, s[i]), acc)

ToArgv(s) == Tokenize(s, 1, <<>>, <<>>)

\* path.Base(dir): the last element of the path, trailing slashes removed;
\* "." for the empty path and "/" for a path of slashes only.
RECURSIVE StripSlashes(_)
StripSlashes(p) ==
    IF Len(p) > 0 /\ p[Len(p)] = "/"
    THEN StripSlashes(SubSeq(p, 1, Len(p) - 1))
    ELSE p

RECURSIVE LastElem(_)
LastElem(p) ==
    IF Len(p) = 0 THEN <<>>
    ELSE IF p[Len(p)] = "/" THEN <<>>
    ELSE Append(LastElem(SubSeq(p, 1, Len(p) - 1)), p[Len(p)])

Base(p) ==
    IF Len(p) = 0 THEN <<".">>
    ELSE IF Len(StripSlashes(p)) = 0 THEN <<"/">>
    ELSE LastElem(StripSlashes(p))

\* ---------------------------------------------------------- splitCommand

\* The result of a call that panics (index out of range at argv[0]).
SplitPanic ==
    [executable |-> <<>>, argv |-> <<>>, env |-> <<>>, panicked |-> TRUE]

\* Faulty variant: the slice after the executable starts at the executable itself.
RECURSIVE splitLoopKeepExe(_, _, _)
splitLoopKeepExe(words, i, env) ==
    IF i > Len(words)
    THEN IF Len(words) = 0 THEN SplitPanic
         ELSE [executable |-> words[1], argv |-> Tail(words),
               env |-> env, panicked |-> FALSE]
    ELSE IF Contains(words[i], "=")
         THEN splitLoopKeepExe(words, i + 1, Append(env, words[i]))
         ELSE [executable |-> words[i],
               argv |-> SubSeq(words, i, Len(words)),
               env |-> env, panicked |-> FALSE]

\* Faulty variant: the statements after the loop are missing, so that a
\* string whose words all contain "=" yields no executable.
RECURSIVE splitLoopNoFallback(_, _, _)
splitLoopNoFallback(words, i, env) ==
    IF i > Len(words)
    THEN [executable |-> <<>>, argv |-> words, env |-> env,
          panicked |-> FALSE]
    ELSE IF Contains(words[i], "=")
         THEN splitLoopNoFallback(words, i + 1, Append(env, words[i]))
         ELSE [executable |-> words[i],
               argv |-> SubSeq(words, i + 1, Len(words)),
               env |-> env, panicked |-> FALSE]

\* The range loop of splitCommand over the words, from word i on, with the
\* env entries collected so far, and the statements after the loop.
RECURSIVE splitLoop(_, _, _)
splitLoop(words, i, env) ==
    IF i > Len(words)
    THEN IF Len(words) = 0 THEN SplitPanic
         ELSE [executable |-> words[1], argv |-> Tail(words),
               env |-> env, panicked |-> FALSE]
    ELSE IF Contains(words[i], "=")
         THEN splitLoop(words, i + 1, Append(env, words[i]))
         ELSE [executable |-> words[i],
               argv |-> SubSeq(words, i + 1, Len(words)),
               env |-> env, panicked |-> FALSE]

splitCommand(commandstr) == splitLoop(ToArgv(commandstr), 1, <<>>)

\* ------------------------------------------------------------------ hash

\* Faulty variant: the identity also covers the working directory.
hashWithWd(gcmd) ==
    IF Len(gcmd.argv) > 0
    THEN gcmd.executable \o Join(gcmd.argv, <<",">>) \o gcmd.wd
    ELSE gcmd.executable \o gcmd.wd

\* command.hash: executable followed by the comma-joined argv.
hash(gcmd) ==
    IF Len(gcmd.argv) > 0
    THEN gcmd.executable \o Join(gcmd.argv, <<",">>)
    ELSE gcmd.executable

\* ------------------------------------------------------------ the state

VARIABLES
    spawnedProcesses, \* the registry: identity -> handle (index into units)
    waitExit,         \* the "should wait" flag
    waitgroup,        \* the wait group's counter
    units,            \* one record per goroutine started by runAsync
    callerPc,         \* the host's goroutine: idle, kill, sched, lambda
    cur,              \* the command and identity of the Start call under way
    ret,              \* operation and error of the latest call of the host
    out,              \* output string returned by the latest blocking run
    nCalls,           \* number of calls the host has made
    errorLog,         \* number of util.Error calls
    cwd,              \* the process's working directory
    observed,         \* the directory the latest Inside callback ran in
    awaitPc,          \* the host's Await: no, blocked, returned
    fatal,            \* the runtime stopped the program (concurrent map access)
    command,          \* SplitSpec: the string handed to splitCommand
    split,            \* SplitSpec: what splitCommand returned for it
    inside,           \* the Inside call under way: dir and olddir
    runs              \* RunSpec: one record per blocking run

vars == <<spawnedProcesses, waitExit, waitgroup, units, callerPc, cur, ret,
          out, nCalls, errorLog, cwd, observed, awaitPc, fatal, command, inside, runs,
          split>>

\* The supervisor's state: registry, flag, counter, goroutines and log.
supervisor == <<spawnedProcesses, waitExit, waitgroup, units, errorLog>>

\* ---------------------------------------------------------- the inputs

DirP == <<"/", "p">>
DirQ == <<"/", "q">>
DirMissing == <<"/", "z">>
ExistingDirs == {DirP, DirQ}

\* "A=1 s x", "B=2 s x", "sx" and "m.go".
CmdA == <<"A", "=", "1", " ", "s", " ", "x">>
CmdB == <<"B", "=", "2", " ", "s", " ", "x">>
CmdSX == <<"s", "x">>
CmdGo == <<"m", ".", "g", "o">>
CommandStrs == {CmdA, CmdB, CmdSX, CmdGo}

\* The optional working directory argument: none, or one In value.
WdArgs == {<<>>, << <<DirQ>> >>}

\* What a child process writes to stdout and stderr.
ChildOutputs == {<<>>, <<"o">>}

NoHandle == 0
NoCmd == [gcmd |-> [executable |-> <<>>, argv |-> <<>>, env |-> <<>>,
                    wd |-> <<>>],
          id |-> <<>>]
NoSplit == [res |-> [executable |-> <<>>, argv |-> <<>>, env |-> <<>>,
                    panicked |-> FALSE],
            called |-> FALSE]

NoInside == [dir |-> <<>>, olddir |-> <<>>]

\* A lookup in a Go map: the zero value for a missing key.
Lookup(m, k) == IF k \in DOMAIN m THEN m[k] ELSE NoHandle

\* An assignment m[k] = v to a Go map.
Put(m, k, v) == [x \in DOMAIN m \cup {k} |-> IF x = k THEN v ELSE m[x]]

\* getWd: the first string of the single In argument, otherwise os.Getwd().
getWd(wd, getwdOk) ==
    IF Len(wd) = 1 THEN [dir |-> wd[1][1], err |-> "nil"]
    ELSE IF getwdOk THEN [dir |-> cwd, err |-> "nil"]
    ELSE [dir |-> <<>>, err |-> "getwd"]

\* ---------------------------------------------------------------- Init

\* The package variables waitExit and waitgroup before any call.
waitExitInit == FALSE
waitgroupInit == 0

\* The program after package initialization, before any call.
InitProgram ==
    /\ spawnedProcesses = <<>>
    /\ waitExit = waitExitInit
    /\ waitgroup = waitgroupInit
    /\ units = <<>>
    /\ callerPc = "idle"
    /\ cur = NoCmd
    /\ ret = [op |-> "none", err |-> "nil"]
    /\ out = <<>>
    /\ nCalls = 0
    /\ errorLog = 0
    /\ cwd = DirP
    /\ observed = <<>>
    /\ awaitPc = "no"
    /\ fatal = FALSE
    /\ split = NoSplit
    /\ inside = NoInside
    /\ runs = <<>>

Init ==
    /\ InitProgram
    /\ command = <<>>

\* The host's goroutine is between two calls and the program is running.
HostIdle == callerPc = "idle" /\ awaitPc = "no" /\ ~fatal

\* The host makes one more call.
HostCalls == HostIdle /\ nCalls < MaxCalls /\ nCalls' = nCalls + 1

\* ------------------------------------------------------ blocking runs

\* Faulty variant: the recorded text is dropped when the child fails.
run_cmdDropsOnError(captureOutput, written, childErr) ==
    LET recorder == IF captureOutput THEN written ELSE <<>>
    IN  IF captureOutput /\ childErr = "nil"
        THEN [output |-> recorder, err |-> childErr]
        ELSE [output |-> <<>>, err |-> childErr]

\* command.run of a descriptor whose child ends with childErr after writing
\* written: the recorder's text when capturing, the empty string otherwise.
run_cmd(captureOutput, written, childErr) ==
    LET recorder == IF captureOutput THEN written ELSE <<>>
    IN  IF captureOutput
        THEN [output |-> recorder, err |-> childErr]
        ELSE [output |-> <<>>, err |-> childErr]

\* run (Run, RunOutput): getWd, splitCommand, command.run.
Run(captureOutput, commandstr, wd, getwdOk, written, childErr) ==
    /\ HostCalls
    /\ LET d == getWd(wd, getwdOk)
           r == run_cmd(captureOutput, written, childErr)
       IN  IF d.err # "nil"
           THEN /\ ret' = [op |-> "run", err |-> d.err]
                /\ out' = <<>>
           ELSE /\ ~splitCommand(commandstr).panicked
                /\ ret' = [op |-> "run", err |-> r.err]
                /\ out' = r.output
    /\ UNCHANGED <<supervisor, callerPc, cur, cwd, observed,
                   awaitPc, fatal, command, inside, runs, split>>

\* bash (Bash, BashOutput): getWd, then command.run of bash -c script.
Bash(captureOutput, wd, getwdOk, written, childErr) ==
    /\ HostCalls
    /\ LET d == getWd(wd, getwdOk)
           r == run_cmd(captureOutput, written, childErr)
       IN  IF d.err # "nil"
           THEN /\ ret' = [op |-> "bash", err |-> d.err]
                /\ out' = <<>>
           ELSE /\ ret' = [op |-> "bash", err |-> r.err]
                /\ out' = r.output
    /\ UNCHANGED <<supervisor, callerPc, cur, cwd, observed,
                   awaitPc, fatal, command, inside, runs, split>>

\* ------------------------------------------------------------- Inside

\* Inside(dir, lambda) up to the call of lambda: Getwd, then Chdir(dir),
\* which fails on a directory that does not exist. The directories that
\* exist stay in place while the callback runs.
InsideEnter(dir, getwdOk) ==
    /\ HostCalls
    /\ IF ~getwdOk
       THEN /\ ret' = [op |-> "Inside", err |-> "getwd"]
            /\ UNCHANGED <<cwd, inside, callerPc>>
       ELSE IF dir \notin ExistingDirs
       THEN /\ ret' = [op |-> "Inside", err |-> "chdir"]
            /\ UNCHANGED <<cwd, inside, callerPc>>
       ELSE /\ inside' = [dir |-> dir, olddir |-> cwd]
            /\ cwd' = dir
            /\ callerPc' = "lambda"
            /\ ret' = [op |-> "Inside", err |-> "pending"]
    /\ UNCHANGED <<supervisor, cur, out, observed, awaitPc, fatal, command,
                   runs, split>>

\* Faulty variant: the working directory is restored after lambda returns,
\* not in a deferred call, so that a panic of lambda skips it.
InsideLambdaNoDefer(lambdaPanics) ==
    /\ callerPc = "lambda"
    /\ ~fatal
    /\ observed' = cwd
    /\ cwd' = IF lambdaPanics THEN cwd ELSE inside.olddir
    /\ ret' = [op |-> "Inside",
               err |-> IF lambdaPanics THEN "panic" ELSE "nil"]
    /\ callerPc' = "idle"
    /\ UNCHANGED <<supervisor, cur, out, nCalls, awaitPc, fatal, command,
                   inside, runs, split>>

\* The rest of Inside: lambda runs, and looks at the working directory; it
\* returns or panics; the deferred Chdir(olddir) runs in both cases.
InsideLambda(lambdaPanics) ==
    /\ callerPc = "lambda"
    /\ ~fatal
    /\ observed' = cwd
    /\ cwd' = inside.olddir
    /\ ret' = [op |-> "Inside",
               err |-> IF lambdaPanics THEN "panic" ELSE "nil"]
    /\ callerPc' = "idle"
    /\ UNCHANGED <<supervisor, cur, out, nCalls, awaitPc, fatal, command,
                   inside, runs, split>>

\* -------------------------------------------------------------- Start

\* Faulty variant: the "should wait" flag is set before the error is returned.
StartReturnsErrorFlagSet(e) ==
    /\ ret' = [op |-> "Start", err |-> e]
    /\ waitExit' = TRUE
    /\ UNCHANGED <<spawnedProcesses, waitgroup, units, errorLog, callerPc,
                   cur, out, cwd, observed, awaitPc, fatal, command, inside,
                   runs, split>>

\* Faulty variant: the wait group is incremented before the error is returned.
StartReturnsErrorAfterAdd(e) ==
    /\ ret' = [op |-> "Start", err |-> e]
    /\ waitgroup' = waitgroup + 1
    /\ UNCHANGED <<spawnedProcesses, waitExit, units, errorLog, callerPc,
                   cur, out, cwd, observed, awaitPc, fatal, command, inside,
                   runs, split>>

\* Start's two early returns: "return err" after getWd and after the build.
StartReturnsError(e) ==
    /\ ret' = [op |-> "Start", err |-> e]
    /\ UNCHANGED <<supervisor, callerPc, cur, out, cwd, observed, awaitPc,
                   fatal, command, inside, runs, split>>

\* Start up to the call of killSpawned in runAsync: getWd, splitCommand, the
\* build of a ".go" target (buildOk: Run("go install") returned nil), the
\* descriptor, toCmd and hash.
StartCall(commandstr, wd, getwdOk, buildOk) ==
    /\ HostCalls
    /\ LET d == getWd(wd, getwdOk)
           sp == splitCommand(commandstr)
           isGoFile == HasSuffix(sp.executable, <<".", "g", "o">>)
           gcmd == [executable |-> IF isGoFile THEN Base(d.dir)
                                   ELSE sp.executable,
                    argv |-> sp.argv, env |-> sp.env, wd |-> d.dir]
       IN  IF d.err # "nil" THEN StartReturnsError(d.err)
           ELSE /\ ~sp.panicked
                /\ IF isGoFile /\ ~buildOk THEN StartReturnsError("build")
                   ELSE /\ cur' = [gcmd |-> gcmd, id |-> hash(gcmd)]
                        /\ callerPc' = "kill"
                        /\ ret' = [op |-> "Start", err |-> "pending"]
                        /\ UNCHANGED <<supervisor, out, cwd, observed,
                                       awaitPc, fatal, command, inside, runs, split>>

\* Faulty variant: the failure to kill is returned to the caller of Start.
KillFailedPropagates ==
    /\ errorLog' = errorLog + 1
    /\ callerPc' = "idle"
    /\ ret' = [op |-> "Start", err |-> "kill"]
    /\ UNCHANGED units

\* killSpawned when process.Kill() returns an error: util.Error and return.
KillFailed ==
    /\ errorLog' = errorLog + 1
    /\ callerPc' = "sched"
    /\ UNCHANGED <<units, ret>>

\* killSpawned(id) called from runAsync. Kill fails on a handle whose
\* process has been waited for, and otherwise sends the signal.
KillSpawned ==
    /\ callerPc = "kill"
    /\ ~fatal
    /\ LET process == Lookup(spawnedProcesses, cur.id)
       IN  IF process = NoHandle
           THEN /\ callerPc' = "sched"
                /\ UNCHANGED <<units, errorLog, ret>>
           ELSE IF units[process].pc = "done"
           THEN KillFailed
           ELSE /\ units' = [units EXCEPT ![process].killed = TRUE]
                /\ callerPc' = "sched"
                /\ UNCHANGED <<errorLog, ret>>
    /\ UNCHANGED <<spawnedProcesses, waitExit, waitgroup, cur, out, nCalls,
                   cwd, observed, awaitPc, fatal, command, inside, runs, split>>

\* A goroutine of runAsync that has not run yet.
NewUnit ==
    [id |-> cur.id, gcmd |-> cur.gcmd, call |-> nCalls, pc |-> "start",
     proc |-> "none", killed |-> FALSE, err |-> "nil"]

\* Faulty variant: runAsync starts the process itself and returns its error.
ScheduleSync ==
    /\ callerPc = "sched"
    /\ ~fatal
    /\ waitExit' = TRUE
    /\ waitgroup' = waitgroup + 1
    /\ \E ok \in BOOLEAN :
          IF ok
          THEN /\ units' = Append(units, [NewUnit EXCEPT !.pc = "register",
                                                        !.proc = "running"])
               /\ ret' = [op |-> "Start", err |-> "nil"]
          ELSE /\ units' = Append(units, [NewUnit EXCEPT !.pc = "failed",
                                                        !.err = "launch"])
               /\ ret' = [op |-> "Start", err |-> "launch"]
    /\ callerPc' = "idle"
    /\ UNCHANGED <<spawnedProcesses, errorLog, cur, out, nCalls, cwd,
                   observed, awaitPc, fatal, command, inside, runs, split>>

\* The rest of runAsync: the flag, waitgroup.Add(1), the go statement and
\* "return nil".
Schedule ==
    /\ callerPc = "sched"
    /\ ~fatal
    /\ waitExit' = TRUE
    /\ waitgroup' = waitgroup + 1
    /\ units' = Append(units, NewUnit)
    /\ ret' = [op |-> "Start", err |-> "nil"]
    /\ callerPc' = "idle"
    /\ UNCHANGED <<spawnedProcesses, errorLog, cur, out, nCalls, cwd,
                   observed, awaitPc, fatal, command, inside, runs, split>>

\* ------------------------------------------- the goroutine of runAsync

Units == 1..Len(units)

\* "err = cmd.Start(); if err != nil { return }".
UnitStartFails(u) ==
    /\ units' = [units EXCEPT ![u].pc = "failed", ![u].err = "launch"]
    /\ UNCHANGED waitgroup

\* Faulty variant: the handle is written to the registry before the error
\* of cmd.Start() is looked at.
UnitStartRegistersFirst(u, ok) ==
    /\ ~fatal
    /\ units[u].pc = "start"
    /\ spawnedProcesses' = Put(spawnedProcesses, units[u].id, u)
    /\ IF ok
       THEN /\ units' = [units EXCEPT ![u].pc = "wait",
                                      ![u].proc = "running"]
            /\ UNCHANGED waitgroup
       ELSE UnitStartFails(u)
    /\ UNCHANGED <<waitExit, errorLog, callerPc, cur, ret, out, nCalls, cwd,
                   observed, awaitPc, fatal, command, inside, runs, split>>

\* cmd.Start() in the goroutine: the process runs, or the launch fails.
UnitStart(u, ok) ==
    /\ ~fatal
    /\ units[u].pc = "start"
    /\ IF ok
       THEN /\ units' = [units EXCEPT ![u].pc = "register",
                                      ![u].proc = "running"]
            /\ UNCHANGED waitgroup
       ELSE UnitStartFails(u)
    /\ UNCHANGED <<spawnedProcesses, waitExit, errorLog, callerPc, cur, ret,
                   out, nCalls, cwd, observed, awaitPc, fatal, command, inside, runs,
                   split>>

\* "spawnedProcesses[id] = cmd.Process".
UnitRegister(u) ==
    /\ ~fatal
    /\ units[u].pc = "register"
    /\ spawnedProcesses' = Put(spawnedProcesses, units[u].id, u)
    /\ units' = [units EXCEPT ![u].pc = "wait"]
    /\ UNCHANGED <<waitExit, waitgroup, errorLog, callerPc, cur, ret, out,
                   nCalls, cwd, observed, awaitPc, fatal, command, inside,
                   runs, split>>

\* The child process ends, by itself or by the signal.
ProcExit(u) ==
    /\ units[u].proc = "running"
    /\ units' = [units EXCEPT ![u].proc = "exited"]
    /\ UNCHANGED <<spawnedProcesses, waitExit, waitgroup, errorLog, callerPc,
                   cur, ret, out, nCalls, cwd, observed, awaitPc, fatal,
                   command, inside, runs, split>>

\* Faulty variant: waitgroup.Done() runs without waiting for the process.
UnitWaitEarly(u, waitErr) ==
    /\ ~fatal
    /\ units[u].pc = "wait"
    /\ units' = [units EXCEPT ![u].pc = "done"]
    /\ waitgroup' = waitgroup - 1
    /\ UNCHANGED <<spawnedProcesses, waitExit, errorLog, callerPc, cur, ret,
                   out, nCalls, cwd, observed, awaitPc, fatal, command,
                   inside, runs, split>>

\* "c <- cmd.Wait(); _ = <-c; waitgroup.Done()": Wait returns waitErr (nil,
\* or the exit error of a child that ended with a non-zero status or by a
\* signal), which goes through the channel and is dropped.
UnitWait(u, waitErr) ==
    /\ ~fatal
    /\ units[u].pc = "wait"
    /\ units[u].proc = "exited"
    /\ LET c == <<waitErr>>
       IN  /\ Len(c) = 1
           /\ units' = [units EXCEPT ![u].pc = "done"]
    /\ waitgroup' = waitgroup - 1
    /\ UNCHANGED <<spawnedProcesses, waitExit, errorLog, callerPc, cur, ret,
                   out, nCalls, cwd, observed, awaitPc, fatal, command, inside, runs,
                   split>>

\* Two goroutines are about to access the map spawnedProcesses, one of them
\* to write it: the host reads it in killSpawned, a goroutine of runAsync
\* writes it.
RegistryRace ==
    \/ /\ callerPc = "kill"
       /\ \E u \in Units : units[u].pc = "register"
    \/ \E u, v \in Units :
          u # v /\ units[u].pc = "register" /\ units[v].pc = "register"

\* The unsynchronized accesses overlap and the runtime stops the program
\* ("concurrent map read and map write", "concurrent map writes").
MapFault ==
    /\ ~fatal
    /\ RegistryRace
    /\ fatal' = TRUE
    /\ UNCHANGED <<supervisor, callerPc, cur, ret, out, nCalls, cwd,
                   observed, awaitPc, command, inside, runs, split>>

\* --------------------------------------------------------------- Await

\* Await: waitgroup.Wait() if the flag is set, else return at once.
AwaitCall ==
    /\ HostIdle
    /\ awaitPc' = IF waitExit /\ waitgroup > 0 THEN "blocked" ELSE "returned"
    /\ UNCHANGED <<supervisor, callerPc, cur, ret, out, nCalls, cwd,
                   observed, fatal, command, inside, runs, split>>

\* waitgroup.Wait() returns when the counter is zero.
AwaitReturn ==
    /\ ~fatal
    /\ awaitPc = "blocked"
    /\ waitgroup = 0
    /\ awaitPc' = "returned"
    /\ UNCHANGED <<supervisor, callerPc, cur, ret, out, nCalls, cwd,
                   observed, fatal, command, inside, runs, split>>

\* ------------------------------------------------------------ the system

RunErrs == {"nil", "launch", "exit"}

Next ==
    \/ \E c \in CommandStrs, wd \in WdArgs, g, b \in BOOLEAN :
          StartCall(c, wd, g, b)
    \/ KillSpawned
    \/ Schedule
    \/ \E u \in Units, ok \in BOOLEAN : UnitStart(u, ok)
    \/ \E u \in Units : UnitRegister(u)
    \/ \E u \in Units : ProcExit(u)
    \/ \E u \in Units, e \in {"nil", "exit"} : UnitWait(u, e)
    \/ MapFault
    \/ \E cap \in BOOLEAN, c \in CommandStrs, wd \in WdArgs, g \in BOOLEAN,
          w \in ChildOutputs, e \in RunErrs :
          Run(cap, c, wd, g, IF e = "launch" THEN <<>> ELSE w, e)
    \/ \E cap \in BOOLEAN, wd \in WdArgs, g \in BOOLEAN,
          w \in ChildOutputs, e \in RunErrs :
          Bash(cap, wd, g, IF e = "launch" THEN <<>> ELSE w, e)
    \/ \E dir \in ExistingDirs \cup {DirMissing}, g \in BOOLEAN :
          InsideEnter(dir, g)
    \/ \E p \in BOOLEAN : InsideLambda(p)
    \/ AwaitCall
    \/ AwaitReturn

Spec == Init /\ [][Next]_vars

\* ------------------------------------------------ splitCommand on its own

\* Every string over Alphabet of at most MaxLen characters.
Strings == UNION {[1..n -> Alphabet] : n \in 0..MaxLen}

SplitInit ==
    /\ InitProgram
    /\ command \in Strings

DoSplit ==
    /\ ~split.called
    /\ split' = [res |-> splitCommand(command), called |-> TRUE]
    /\ UNCHANGED <<supervisor, callerPc, cur, ret, out, nCalls, cwd,
                   observed, awaitPc, fatal, command, inside, runs>>


SplitNext == DoSplit

SplitSpec == SplitInit /\ [][SplitNext]_vars

\* -------------------------------------------- blocking runs on their own

\* Blocking runs step by step, started by several goroutines of the host:
\* each call of run or bash builds its command, the child writes chunk by
\* chunk, and command.run returns when the child has ended. A chunk is
\* named after the run whose child wrote it.

RunOps == {"run", "bash"}

\* Faulty variant: the new command starts with the buffer of the latest one.
newCommandReused(op, captureOutput, dir) ==
    [op |-> op, captureOutput |-> captureOutput, wd |-> dir,
     recorder |-> IF Len(runs) > 0 THEN runs[Len(runs)].recorder ELSE <<>>,
     wrote |-> 0, pc |-> "running", output |-> <<>>, err |-> "nil"]

\* "&command{...}" in run and in bash: a new command, whose recorder is the
\* zero bytes.Buffer; wrote counts the chunks its child has written.
newCommand(op, captureOutput, dir) ==
    [op |-> op, captureOutput |-> captureOutput, wd |-> dir,
     recorder |-> <<>>, wrote |-> 0, pc |-> "running", output |-> <<>>,
     err |-> "nil"]

\* run or bash up to cmd.Run(): getWd, then the command.
RunBegin(op, captureOutput, wd, getwdOk) ==
    /\ Len(runs) < MaxRuns
    /\ LET d == getWd(wd, getwdOk)
       IN  IF d.err # "nil"
           THEN runs' = Append(runs,
                    [newCommand(op, captureOutput, d.dir)
                        EXCEPT !.pc = "returned", !.err = d.err])
           ELSE runs' = Append(runs, newCommand(op, captureOutput, d.dir))
    /\ UNCHANGED <<supervisor, callerPc, cur, ret, out, nCalls, cwd,
                   observed, awaitPc, fatal, command, inside, split>>

\* toCmd: where the child's stdout and stderr go.
toCmdSink(captureOutput) ==
    IF captureOutput THEN "wrapper" ELSE "terminal"

\* A write to a file wrapper: the bytes go to the terminal and, unmarked,
\* to the recorder the wrapper was made with.
wrapperWrite(recorder, chunk) == Append(recorder, chunk)

\* The child of run r writes a chunk to its stdout or stderr.
ChildWrite(r) ==
    /\ runs[r].pc = "running"
    /\ runs[r].wrote < MaxWrites
    /\ runs' = [runs EXCEPT
          ![r].wrote = @ + 1,
          ![r].recorder =
              IF toCmdSink(runs[r].captureOutput) = "wrapper"
              THEN wrapperWrite(@, r) ELSE @]
    /\ UNCHANGED <<supervisor, callerPc, cur, ret, out, nCalls, cwd,
                   observed, awaitPc, fatal, command, inside, split>>

\* cmd.Run() returns childErr and command.run returns. A child that could
\* not be launched has written nothing.
RunEnd(r, childErr) ==
    /\ runs[r].pc = "running"
    /\ childErr = "launch" => runs[r].wrote = 0
    /\ LET res == run_cmd(runs[r].captureOutput, runs[r].recorder, childErr)
       IN  runs' = [runs EXCEPT ![r].pc = "returned",
                                ![r].output = res.output,
                                ![r].err = res.err]
    /\ UNCHANGED <<supervisor, callerPc, cur, ret, out, nCalls, cwd,
                   observed, awaitPc, fatal, command, inside, split>>

RunInit ==
    /\ InitProgram
    /\ command = <<>>

RunNext ==
    \/ \E op \in RunOps, cap \in BOOLEAN, wd \in WdArgs, g \in BOOLEAN :
          RunBegin(op, cap, wd, g)
    \/ \E r \in 1..Len(runs) : ChildWrite(r)
    \/ \E r \in 1..Len(runs), e \in RunErrs : RunEnd(r, e)

RunSpec == RunInit /\ [][RunNext]_vars

\* ================================================================ claims

\* Two goroutines of runAsync run the same task: their commands have the
\* same executable and the same argv.
SameTask(u, v) ==
    /\ units[u].gcmd.executable = units[v].gcmd.executable
    /\ units[u].gcmd.argv = units[v].gcmd.argv

Running(u) == units[u].proc = "running"

\* C1: of two processes started for commands with identical executable and
\* argv, the earlier one is no longer alive, or has been sent a kill,
\* whenever the later one is running.
C1_AtMostOneAlive ==
    \A u, v \in Units :
        (u < v /\ SameTask(u, v) /\ Running(v)) =>
            (~Running(u) \/ units[u].killed)

\* C2: when a goroutine starts the process of a Start call, every process
\* still running that an earlier Start call scheduled for the same identity
\* has already been sent its kill.
C2_KillBeforeStart ==
    [][\A v \in Units :
          (units[v].proc = "none" /\ units'[v].proc = "running") =>
              \A u \in 1..(v - 1) :
                  (units[u].id = units[v].id /\ Running(u)) =>
                      units[u].killed]_vars

\* Every goroutine of runAsync has come to its end.
AllUnitsFinished == \A u \in Units : units[u].pc \in {"done", "failed"}

\* C3: once every background unit has finished (its process exited, was
\* killed, or failed to launch), the wait group's counter is zero, so that
\* Await returns.
C3_BarrierDrains == AllUnitsFinished => waitgroup = 0

\* C4: the flag waitExit is set exactly when some Start call has scheduled a
\* goroutine (false at first, never cleared, not set by Run, Bash, Inside or
\* a Start call that returns an error), and Await never blocks before that.
C4_WaitExitOnlyByScheduling ==
    /\ waitExit <=> Len(units) > 0
    /\ Len(units) = 0 => awaitPc # "blocked"

\* Await returned at once after the host made all its calls, the last one a
\* Start call that returned an error, and none of them scheduled anything.
C4_Witness ==
    /\ awaitPc = "returned"
    /\ ~waitExit
    /\ nCalls = MaxCalls
    /\ ret.op = "Start"
    /\ ret.err \in {"getwd", "build"}

\* C5: no two goroutines access the registry at the same time with one of
\* them writing.
C5_RegistrySynchronized == ~RegistryRace

C7_ErrorLeavesSupervisor ==
    [][(/\ nCalls' # nCalls
        /\ ret'.op = "Start"
        /\ ret'.err \notin {"nil", "pending"}) =>
           UNCHANGED supervisor]_vars

\* Start returned the error of the build while the process tracked under
\* the identity the command would have had is running and was sent no kill.
C7_Witness ==
    /\ ret = [op |-> "Start", err |-> "build"]
    /\ \E u \in Units :
          /\ units[u].id = Base(cwd)
          /\ Lookup(spawnedProcesses, units[u].id) = u
          /\ Running(u)
          /\ ~units[u].killed
          /\ waitgroup = 1

\* C8: when the kill of the tracked process fails, the failure is logged,
\* Start goes on to schedule, and the scheduling that follows increments
\* the counter, adds the goroutine and returns nil.
C8_KillFailureSwallowed ==
    [][/\ errorLog' # errorLog =>
            /\ errorLog' = errorLog + 1
            /\ callerPc' = "sched"
            /\ ret' = ret
       /\ (callerPc = "sched" /\ callerPc' # "sched") =>
            /\ waitgroup' = waitgroup + 1
            /\ Len(units') = Len(units) + 1
            /\ ret' = [op |-> "Start", err |-> "nil"]]_vars

\* The kill of a stale handle failed and was logged, Start returned nil and
\* the new goroutine has registered its handle under the same identity.
C8_Witness ==
    /\ errorLog = 1
    /\ ret = [op |-> "Start", err |-> "nil"]
    /\ \E u, v \in Units :
          /\ u < v
          /\ units[u].pc = "done"
          /\ ~units[u].killed
          /\ units[v].id = units[u].id
          /\ Lookup(spawnedProcesses, units[v].id) = v

\* Two descriptors with the same executable and the same argv.
SameCommand(c, d) == c.executable = d.executable /\ c.argv = d.argv

\* C9: goroutines whose commands have the same executable and argv have the
\* same identity, whatever their env entries and working directories, and
\* so has the command of the Start call under way.
C9_IdentityIgnoresEnvAndWd ==
    /\ \A u, v \in Units : SameTask(u, v) => units[u].id = units[v].id
    /\ callerPc \in {"kill", "sched"} =>
          \A u \in Units :
              SameCommand(cur.gcmd, units[u].gcmd) => cur.id = units[u].id

\* A Start call has killed the process that a command with other env
\* entries, in another working directory, had started.
C9_Witness ==
    /\ callerPc = "sched"
    /\ \E u \in Units :
          /\ Lookup(spawnedProcesses, cur.id) = u
          /\ units[u].killed
          /\ SameCommand(cur.gcmd, units[u].gcmd)
          /\ cur.gcmd.env # units[u].gcmd.env
          /\ cur.gcmd.wd # units[u].gcmd.wd

\* The words of the string handed to splitCommand.
Words == ToArgv(command)

\* The words without "=".
Plain == {k \in 1..Len(Words) : ~Contains(Words[k], "=")}

\* The first word without "=".
FirstPlain == CHOOSE k \in Plain : \A j \in Plain : k <= j

\* C10: when N words with "=" are followed by a word without, splitCommand
\* returns these N words as env, that word as executable and all the words
\* after it as argv, each in the order of the string.
C10_SplitLeadingEnv ==
    (split.called /\ Plain # {}) =>
        /\ ~split.res.panicked
        /\ split.res.env = SubSeq(Words, 1, FirstPlain - 1)
        /\ split.res.executable = Words[FirstPlain]
        /\ split.res.argv = SubSeq(Words, FirstPlain + 1, Len(Words))

\* splitCommand has returned one env entry, an executable and an argv
\* whose word contains "=".
C10_Witness ==
    /\ split.called
    /\ Plain # {}
    /\ Len(split.res.env) = 1
    /\ Len(split.res.argv) = 1
    /\ Contains(split.res.argv[1], "=")

\* C11: when the string has words and every one of them contains "=",
\* splitCommand does not panic and returns the first word as executable and
\* the words after it as argv.
C11_SplitFallback ==
    (split.called /\ Len(Words) >= 1 /\ Plain = {}) =>
        /\ ~split.res.panicked
        /\ split.res.executable = Words[1]
        /\ split.res.argv = Tail(Words)

\* splitCommand has returned from a string of two words that both contain
\* "=".
C11_Witness ==
    /\ split.called
    /\ Len(Words) = 2
    /\ Plain = {}
    /\ Len(split.res.argv) = 1

\* C12: for every non-empty string splitCommand returns normally, with a
\* non-empty executable.
C12_ExecutableNeverEmpty ==
    (split.called /\ Len(command) > 0) =>
        /\ ~split.res.panicked
        /\ Len(split.res.executable) > 0

\* C20: for every string with at least one word, env followed by the
\* executable followed by argv is the sequence of the words of the string.
C20_SplitPartitions ==
    (split.called /\ Len(Words) >= 1) =>
        split.res.env \o <<split.res.executable>> \o split.res.argv = Words

\* The blocking runs that went as far as cmd.Run() and have returned.
Returned == {r \in 1..Len(runs) : runs[r].pc = "returned"
                                  /\ runs[r].err # "getwd"}

\* The chunks the child of run r has written, in order.
WrittenBy(r) == [i \in 1..runs[r].wrote |-> r]

\* C13: a blocking run that does not capture returns the empty string
\* whatever its child wrote and however it ended; a capturing run returns
\* all that its child wrote, together with the error, also when the child
\* failed.
C13_CaptureSemantics ==
    \A r \in Returned :
        IF runs[r].captureOutput
        THEN runs[r].output = WrittenBy(r)
        ELSE runs[r].output = <<>>

\* A run that does not capture returned the empty string though its child
\* wrote, and a capturing run whose child failed returned what it wrote.
C13_Witness ==
    \E r, q \in Returned :
        /\ ~runs[r].captureOutput /\ runs[r].wrote > 0
        /\ runs[r].output = <<>>
        /\ runs[q].captureOutput /\ runs[q].wrote > 0
        /\ runs[q].err = "exit"
        /\ Len(runs[q].output) > 0

\* C14: the text a capturing run returns holds only chunks written by its
\* own child, whatever other runs came before it or ran at the same time.
C14_RecorderOwned ==
    \A r \in Returned :
        \A i \in 1..Len(runs[r].output) : runs[r].output[i] = r

\* Two capturing runs of the same operation in the same directory ran at
\* the same time, and the one that has returned has its own text.
C14_Witness ==
    \E r, q \in 1..Len(runs) :
        /\ r < q
        /\ runs[r].op = runs[q].op /\ runs[r].wd = runs[q].wd
        /\ runs[r].captureOutput /\ runs[q].captureOutput
        /\ runs[r].pc = "running" /\ Len(runs[r].recorder) = MaxWrites
        /\ q \in Returned /\ Len(runs[q].output) = MaxWrites

C16_BarrierBalanced ==
    /\ waitgroup >= 0
    /\ waitgroup = Cardinality({u \in Units : units[u].pc # "done"})
    /\ \A u \in Units : units[u].pc = "done" => units[u].proc = "exited"

\* One goroutine has passed its decrement, another one has failed to launch
\* its process and is still counted.
C16_Witness ==
    /\ waitgroup = 1
    /\ \E u, v \in Units :
          /\ units[u].pc = "done"
          /\ units[v].pc = "failed"

\* C17: every entry of the registry is the handle of a process that was
\* started under that identity; entries are never removed; a goroutine whose
\* launch fails leaves the registry as it is.
C17_RegistryAfterStart ==
    /\ [](\A id \in DOMAIN spawnedProcesses :
             /\ spawnedProcesses[id] \in Units
             /\ units[spawnedProcesses[id]].id = id
             /\ units[spawnedProcesses[id]].proc # "none")
    /\ [][/\ DOMAIN spawnedProcesses \subseteq DOMAIN spawnedProcesses'
          /\ \A u \in Units :
                (units[u].pc = "start" /\ units'[u].pc = "failed") =>
                    spawnedProcesses' = spawnedProcesses]_vars

\* The launch for a Start call has failed and the registry still holds the
\* handle of the process that this call killed.
C17_Witness ==
    \E u, v \in Units :
        /\ u < v
        /\ units[u].id = units[v].id
        /\ units[u].killed
        /\ units[v].pc = "failed"
        /\ Lookup(spawnedProcesses, units[v].id) = u

\* The goroutines scheduled for an identity.
UnitsOf(id) == {u \in Units : units[u].id = id}

\* The latest element of a non-empty set of goroutines.
Latest(S) == CHOOSE u \in S : \A v \in S : v <= u

\* C18: once every goroutine scheduled for an identity has written its
\* handle to the registry, the entry of that identity is the handle of the
\* process of the most recent Start call for it.
C18_RegistryHoldsLatest ==
    \A w \in Units :
        LET S == UnitsOf(units[w].id)
        IN  (\A u \in S : units[u].pc \in {"wait", "done"}) =>
                Lookup(spawnedProcesses, units[w].id) = Latest(S)

\* C19: the process that a Start call sends a kill to was started by a
\* command with the same executable and the same argv as the new command.
C19_KillsOnlySameTask ==
    [][\A u \in Units :
          (~units[u].killed /\ units'[u].killed) =>
              SameCommand(cur.gcmd, units[u].gcmd)]_vars

====
